---- MODULE Spec2Model ----
(***************************************************************************)
(* Model of the concurrent grayscale line follower of                      *)
(* src/picarx/concurrent.py: the latest-message Bus, the sensor,           *)
(* interpreter and controller threads, the recovery maneuver and the       *)
(* launcher run_level4_grayscale.                                          *)
(*                                                                         *)
(* Units.  Offsets are fixed-point numbers in units of 1/Scale, steering   *)
(* angles in units of 1/Scale degree, recovery time in tenths of a second. *)
(***************************************************************************)
EXTENDS Integers, Sequences, FiniteSets, TLC

(* ------------------------------ bounds -------------------------------- *)
\* number of ADC messages the sensor thread publishes before it idles
MaxSamples == 2
\* number of messages the writer of the stand-alone Bus publishes
MaxWrites == 3
MaxOffsets == 3
\* resolution of the fixed-point image of the floats: offsets and angles are
\* kept in units of 1/Scale
Scale == 100

(* ------------------------- program constants -------------------------- *)
THRESH == 850
SENSITIVITY == 120
RECOVER_MAX_TIME == 25
RECOVER_STEER == 0
MAX_ANGLE == 30
\* DEADBAND = 0.06, ALPHA = 0.30, RESPONSE = 1.0, DAMPING = 0.8 in hundredths
DEADBAND == 6
ALPHA == 30
RESPONSE == 100
DAMPING == 80
\* CONTROL_DT = 0.02 s, given as the rate 1/CONTROL_DT
CONTROL_RATE == 50
POLARITY == "dark"

\* the readings the grayscale module can deliver (get_grayscale_data)
Triples == { <<1000, 1000, 1000>>, <<200, 1000, 1000>> }
\* how long, in tenths of a second, one sleep(RECOVER_DT) and the poll after
\* it may take
TimeSteps == {5, 10}

Abs(x) == IF x < 0 THEN -x ELSE x
Max2(a, b) == IF a >= b THEN a ELSE b
Max3(a, b, c) == Max2(a, Max2(b, c))
\* integer quotient truncated toward zero (fixed-point image of a float)
Trunc(n, d) == IF n >= 0 THEN n \div d ELSE -((-n) \div d)

(* ------------------------------ messages ------------------------------ *)
\* Python None on a bus, and the two dataclasses
NoADC == [some |-> FALSE, t |-> 0, vals |-> <<0, 0, 0>>]
ADCMessage(t, vals) == [some |-> TRUE, t |-> t, vals |-> vals]
\* a faulty empty bus that holds a zero offset instead of None
NoOffsetMsg_zero == [some |-> TRUE, t |-> 0, lost |-> FALSE, offset |-> 0]

\* None on offset_bus
NoOffsetMsg == [some |-> FALSE, t |-> 0, lost |-> FALSE, offset |-> 0]
\* o is the result of process: [lost |-> BOOLEAN, offset |-> Int]
OffsetMessage(t, o) == [some |-> TRUE, t |-> t, lost |-> o.lost, offset |-> o.offset]

(* -------------------------------- Bus --------------------------------- *)
\* Bus.__init__: message plus a writer-priority reader/writer lock.
\* readers: threads holding the read lock; writer: threads holding the write
\* lock; wwait: writers that asked for the lock and have not got it yet.
Bus(initial_message) ==
    [message |-> initial_message, readers |-> {}, writer |-> {}, wwait |-> {}]

\* faulty read locks: one that lets readers in beside an active writer, one
\* that lets them overtake a waiting writer
RLockFree_beside_writer(b) == b.wwait = {}
RLockFree_no_priority(b) == b.writer = {}

\* a faulty read lock that also waits until a message has been written
RLockFree_waits_for_message(b) ==
    b.writer = {} /\ b.wwait = {} /\ b.message.some

\* gen_rlock().acquire: refused while a writer holds or waits for the lock
RLockFree(b) == b.writer = {} /\ b.wwait = {}
RLockAcquire(b, th) == [b EXCEPT !.readers = @ \cup {th}]
\* a faulty read lock whose release leaves the reader registered
RLockRelease_forgets(b, th) == b

\* gen_rlock().release
RLockRelease(b, th) == [b EXCEPT !.readers = @ \ {th}]

\* gen_wlock().acquire: announce, then enter when nobody is inside
WLockRequest(b, th) == [b EXCEPT !.wwait = @ \cup {th}]
WLockFree(b) == b.readers = {} /\ b.writer = {}
WLockAcquire(b, th) == [b EXCEPT !.writer = @ \cup {th}, !.wwait = @ \ {th}]
WLockRelease(b, th) == [b EXCEPT !.writer = @ \ {th}]

\* a faulty read that gives up and returns None while a writer is waiting
BusLoad_gives_up(b) == IF b.wwait # {} THEN NoADC ELSE b.message

\* the bodies of Bus.write and Bus.read
BusStore(b, msg) == [b EXCEPT !.message = msg]
BusLoad(b) == b.message

(* ---------------------------- Interpreter ----------------------------- *)
\* str.lower on the polarity arguments that are tried
lower(p) ==
    CASE p = "Dark" -> "dark"
      [] p = "LIGHT" -> "light"
      [] OTHER -> p

\* GrayscaleInterpreter.__init__: the object, or raised for the ValueError
GrayscaleInterpreter(sensitivity, polarity, auto_baseline, alpha, thresh) ==
    [raised |-> lower(polarity) \notin {"dark", "light"},
     sensitivity |-> sensitivity,
     polarity |-> lower(polarity),
     auto_baseline |-> auto_baseline,
     alpha |-> alpha,
     baseline |-> <<>>,
     thresh |-> thresh]

\* GrayscaleInterpreter._update_baseline: the new baseline, in hundredths of
\* a count, for alpha in hundredths; <<>> is None
update_baseline(self, v) ==
    IF self.baseline = <<>>
      THEN [i \in 1..3 |-> v[i] * 100]
    ELSE [i \in 1..3 |->
             ((100 - self.alpha) * self.baseline[i] + self.alpha * v[i] * 100)
                 \div 100]

\* a faulty process that updates the baseline whatever auto_baseline says
baseline_after_always(self, vals) == update_baseline(self, vals)

\* the baseline lines of process: if self.auto_baseline: _update_baseline
baseline_after(self, vals) ==
    IF self.auto_baseline THEN update_baseline(self, vals) ELSE self.baseline

\* polarity-aware line strength of one channel
strength(self, x) ==
    IF self.polarity = "dark" THEN Max2(0, self.thresh - x)
                              ELSE Max2(0, x - self.thresh)

\* a faulty centroid with the sign of its docstring (positive = line left)
centroid_flipped(num, total) ==
    IF num = 0 THEN 0
    ELSE LET a == Abs(num) * Scale
             q == IF a % total = 0 THEN (a \div total) - 1 ELSE a \div total
         IN  IF num < 0 THEN q ELSE -q

\* (num / (total + 1e-9)) on the fixed-point grid, truncated toward zero:
\* the epsilon keeps an exact quotient strictly below its grid point
centroid(num, total) ==
    IF num = 0 THEN 0
    ELSE LET a == Abs(num) * Scale
             q == IF a % total = 0 THEN (a \div total) - 1 ELSE a \div total
         IN  IF num < 0 THEN -q ELSE q

clamp(x, lo, hi) == IF x > hi THEN hi ELSE IF x < lo THEN lo ELSE x


\* a faulty process that measures line strength against the running baseline
\* instead of thresh, once there is a baseline
GrayscaleInterpreter_process_on_baseline(self, vals) ==
    LET L == vals[1]
        M == vals[2]
        R == vals[3]
        edge_ok == Max2(Abs(L - M), Abs(M - R)) >= self.sensitivity
        ref(i) == IF self.baseline = <<>> THEN self.thresh
                  ELSE self.baseline[i] \div 100
        s(i) == IF self.polarity = "dark" THEN Max2(0, ref(i) - vals[i])
                ELSE Max2(0, vals[i] - ref(i))
        sL == s(1)
        sM == s(2)
        sR == s(3)
        total == sL + sM + sR
    IN  IF total = 0 /\ ~edge_ok
          THEN [lost |-> TRUE, offset |-> 0]
        ELSE IF ~edge_ok /\ Max3(sL, sM, sR) < self.sensitivity
          THEN [lost |-> FALSE, offset |-> 0]
        ELSE [lost |-> FALSE,
              offset |-> clamp(centroid(sR - sL, total), -Scale, Scale)]

\* a faulty process without the centered floor
GrayscaleInterpreter_process_no_floor(self, vals) ==
    LET L == vals[1]
        M == vals[2]
        R == vals[3]
        edge_ok == Max2(Abs(L - M), Abs(M - R)) >= self.sensitivity
        sL == strength(self, L)
        sM == strength(self, M)
        sR == strength(self, R)
        total == sL + sM + sR
    IN  IF total = 0 /\ ~edge_ok
          THEN [lost |-> TRUE, offset |-> 0]
        ELSE [lost |-> FALSE,
              offset |-> clamp(centroid(sR - sL, total), -Scale, Scale)]

\* a faulty process that returns the raw strength difference
GrayscaleInterpreter_process_raw(self, vals) ==
    LET L == vals[1]
        M == vals[2]
        R == vals[3]
        edge_ok == Max2(Abs(L - M), Abs(M - R)) >= self.sensitivity
        sL == strength(self, L)
        sM == strength(self, M)
        sR == strength(self, R)
        total == sL + sM + sR
    IN  IF total = 0 /\ ~edge_ok
          THEN [lost |-> TRUE, offset |-> 0]
        ELSE IF ~edge_ok /\ Max3(sL, sM, sR) < self.sensitivity
          THEN [lost |-> FALSE, offset |-> 0]
        ELSE [lost |-> FALSE, offset |-> sR - sL]

\* a faulty process that is lost on zero strength whatever the edge
GrayscaleInterpreter_process_lost_on_edge(self, vals) ==
    LET L == vals[1]
        M == vals[2]
        R == vals[3]
        edge_ok == Max2(Abs(L - M), Abs(M - R)) >= self.sensitivity
        sL == strength(self, L)
        sM == strength(self, M)
        sR == strength(self, R)
        total == sL + sM + sR
    IN  IF total = 0
          THEN [lost |-> TRUE, offset |-> 0]
        ELSE IF ~edge_ok /\ Max3(sL, sM, sR) < self.sensitivity
          THEN [lost |-> FALSE, offset |-> 0]
        ELSE [lost |-> FALSE,
              offset |-> clamp(centroid(sR - sL, total), -Scale, Scale)]

\* GrayscaleInterpreter.process: None (lost) or an offset
GrayscaleInterpreter_process(self, vals) ==
    LET L == vals[1]
        M == vals[2]
        R == vals[3]
        edge_ok == Max2(Abs(L - M), Abs(M - R)) >= self.sensitivity
        sL == strength(self, L)
        sM == strength(self, M)
        sR == strength(self, R)
        total == sL + sM + sR
    IN  IF total = 0 /\ ~edge_ok
          THEN [lost |-> TRUE, offset |-> 0]
        ELSE IF ~edge_ok /\ Max3(sL, sM, sR) < self.sensitivity
          THEN [lost |-> FALSE, offset |-> 0]
        ELSE [lost |-> FALSE,
              offset |-> clamp(centroid(sR - sL, total), -Scale, Scale)]

\* a faulty process whose lost test wants an edge instead of none
process_lost_needs_edge(self, vals) ==
    LET L == vals[1]
        M == vals[2]
        R == vals[3]
        edge_ok == Max2(Abs(L - M), Abs(M - R)) >= self.sensitivity
        sL == strength(self, L)
        sM == strength(self, M)
        sR == strength(self, R)
        total == sL + sM + sR
    IN  IF total = 0 /\ edge_ok
          THEN [lost |-> TRUE, offset |-> 0]
        ELSE IF ~edge_ok /\ Max3(sL, sM, sR) < self.sensitivity
          THEN [lost |-> FALSE, offset |-> 0]
        ELSE [lost |-> FALSE,
              offset |-> clamp(centroid(sR - sL, total), -Scale, Scale)]

\* interp.process(msg.vals) in the interpreter thread
process(self, vals) == GrayscaleInterpreter_process(self, vals)

\* complex_line.py, GrayscaleInterpreter.__init__: nothing is checked
complex_line_GrayscaleInterpreter(sensitivity, polarity) ==
    [raised |-> FALSE, sensitivity |-> sensitivity, polarity |-> polarity]

\* complex_line.py, GrayscaleInterpreter.process, first call on a new object
\* (the baseline becomes v): raised for the ValueError, else the offset
complex_line_process(self, v) ==
    LET b == v
        s == [i \in 1..3 |->
                 Max2(0, IF lower(self.polarity) = "dark" THEN b[i] - v[i]
                                                          ELSE v[i] - b[i])]
        contrast_ok == Max2(Abs(v[1] - v[2]), Abs(v[2] - v[3]))
                           >= self.sensitivity
        total == s[1] + s[2] + s[3]
    IN  IF lower(self.polarity) \notin {"dark", "light"}
          THEN [raised |-> TRUE, lost |-> FALSE, offset |-> 0]
        ELSE IF Max3(s[1], s[2], s[3]) < self.sensitivity /\ ~contrast_ok
          THEN [raised |-> FALSE, lost |-> FALSE, offset |-> 0]
        ELSE [raised |-> FALSE, lost |-> FALSE,
              offset |-> clamp(-centroid(s[3] - s[1], total), -Scale, Scale)]

\* a faulty reacquisition test that also accepts a probe exactly at THRESH
line_seen_thresh_inclusive(vals) ==
    IF POLARITY = "dark"
      THEN vals[1] <= THRESH \/ vals[2] <= THRESH \/ vals[3] <= THRESH
      ELSE vals[1] >= THRESH \/ vals[2] >= THRESH \/ vals[3] >= THRESH

\* line_seen_thresh, used by the recovery poll: any probe on the line side
\* of THRESH
line_seen_thresh(vals) ==
    IF POLARITY = "dark"
      THEN vals[1] < THRESH \/ vals[2] < THRESH \/ vals[3] < THRESH
      ELSE vals[1] > THRESH \/ vals[2] > THRESH \/ vals[3] > THRESH

(* ---------------------------- PDController ---------------------------- *)
\* a faulty constructor whose derivative gain forgets the loop period
PDController_Kd_without_dt(max_angle, response, damping, rate) ==
    [max_angle |-> max_angle, rate |-> rate,
     Kp |-> max_angle * response,
     Kd |-> (max_angle * response * damping) \div 100,
     prev_error |-> 0, has_prev |-> FALSE]

\* PDController.__init__: Kp = max_angle * response, Kd = Kp * dt * damping,
\* both in hundredths, for response and damping in hundredths and dt = 1/rate
PDController(max_angle, response, damping, rate) ==
    [max_angle |-> max_angle, rate |-> rate,
     Kp |-> max_angle * response,
     Kd |-> (max_angle * response * damping) \div (rate * 100),
     prev_error |-> 0, has_prev |-> FALSE]

\* a faulty reset that forgets has_prev
reset_error_only(c) == [c EXCEPT !.prev_error = 0]

\* PDController.reset
reset(c) == [c EXCEPT !.prev_error = 0, !.has_prev = FALSE]

\* a faulty control that takes the derivative on the first cycle too
control_de_always(c, e) ==
    LET de == (e - c.prev_error) * c.rate
        angle == Trunc(c.Kp * e + c.Kd * de, 100)
    IN  [state |-> [c EXCEPT !.prev_error = e, !.has_prev = TRUE],
         angle |-> clamp(angle, -c.max_angle * Scale, c.max_angle * Scale)]

\* a faulty control that commands the raw PD output
control_unclamped(c, e) ==
    LET de == IF c.has_prev THEN (e - c.prev_error) * c.rate ELSE 0
        angle == Trunc(c.Kp * e + c.Kd * de, 100)
    IN  [state |-> [c EXCEPT !.prev_error = e, !.has_prev = TRUE],
         angle |-> angle]

\* PDController.control for a numeric offset e: the new controller state and
\* the clamped angle, in units of 1/Scale degree
control(c, e) ==
    LET de == IF c.has_prev THEN (e - c.prev_error) * c.rate ELSE 0
        angle == Trunc(c.Kp * e + c.Kd * de, 100)
    IN  [state |-> [c EXCEPT !.prev_error = e, !.has_prev = TRUE],
         angle |-> clamp(angle, -c.max_angle * Scale, c.max_angle * Scale)]

\* the deadband and smoothing lines of controller_thread_fn
\* a faulty deadband that lets every offset through
deadband_off(offset) == offset

deadband(offset) == IF Abs(offset) * 100 < DEADBAND * Scale THEN 0 ELSE offset

\* a faulty smoothing that adds the new offset to the previous one
smooth_sum(offset, prev_offset) == offset + prev_offset

\* offset = ALPHA * offset + (1 - ALPHA) * prev_offset
smooth(offset, prev_offset) ==
    Trunc(ALPHA * offset + (100 - ALPHA) * prev_offset, 100)

(* ------------------------------- state -------------------------------- *)
Threads == {"sensor", "interp", "ctrl"}

VARIABLES
    pc,          \* position of main and of each thread
    stop_event,  \* threading.Event
    adc_bus,     \* Bus of ADCMessage
    offset_bus,  \* Bus of OffsetMessage
    drive,       \* last drive command the car received
    steer,       \* last steering angle the car received
    samples,     \* sensor thread: time() readings taken so far
    s_msg,       \* sensor thread: the message being written
    i_msg,       \* interpreter thread: msg read from adc_bus
    last_t,      \* interpreter thread: last_t, -1 for None
    i_out,       \* interpreter thread: the OffsetMessage being written
    c_msg,       \* controller thread: msg read from offset_bus
    prev_offset, \* controller thread: prev_offset
    controller,  \* PDController: prev_error, has_prev
    elapsed,     \* recovery: time() - t0 in tenths of a second
    rec_exit,    \* recovery: which break left the poll loop
    rec_vals,    \* recovery: vals of the latest raw poll
    interp,      \* the GrayscaleInterpreter object, with its baseline
    track,       \* the readings get_grayscale_data() can return on this track
    h_bus,       \* a Bus used by one writer and several readers
    h_pc,        \* its callers' positions inside write / read
    h_ret,       \* per reader: what its latest read() returned
    h_prev,      \* per reader: what its read() before that returned
    h_done,      \* number of write() calls that have returned
    f_pc,        \* an interpreter by itself: new, ready, or how it failed
    f_args,      \* the class and the constructor arguments that are tried
    f_self,      \* the constructed interpreter
    f_vals,      \* the latest triple handed to process
    f_out        \* what process returned for it

pipe_vars == <<pc, stop_event, adc_bus, offset_bus, drive, steer, samples,
               s_msg, i_msg, last_t, i_out, c_msg, prev_offset, controller,
               elapsed, rec_exit, rec_vals, interp, track>>
h_vars == <<h_bus, h_pc, h_ret, h_prev, h_done>>
f_vars == <<f_pc, f_args, f_self, f_vals, f_out>>
vars == <<pipe_vars, h_vars, f_vars>>

(* --------------------------- initial state ---------------------------- *)
\* run_level4_grayscale up to the try block: car stopped and centred,
\* empty busses, event clear, threads created but not started
\* run_level4_grayscale up to the first start(), for a RESPONSE knob, the
\* interpreter's auto_baseline and alpha, and the track the car stands on
PipeStartOn(response, auto_baseline, alpha, surface) ==
    /\ pc = [main |-> "start_sensor", sensor |-> "unstarted",
             interp |-> "unstarted", ctrl |-> "unstarted"]
    /\ stop_event = FALSE
    /\ adc_bus = Bus(NoADC)
    /\ offset_bus = Bus(NoOffsetMsg)
    /\ drive = "stop"
    /\ steer = 0
    /\ samples = 0
    /\ s_msg = NoADC
    /\ i_msg = NoADC
    /\ last_t = -1
    /\ i_out = NoOffsetMsg
    /\ c_msg = NoOffsetMsg
    /\ prev_offset = 0
    /\ controller = PDController(MAX_ANGLE, response, DAMPING, CONTROL_RATE)
    /\ elapsed = 0
    /\ rec_exit = "none"
    /\ rec_vals = <<0, 0, 0>>
    /\ interp = GrayscaleInterpreter(SENSITIVITY, POLARITY, auto_baseline,
                                     alpha, THRESH)
    /\ track = surface

PipeStart(response, auto_baseline, alpha) ==
    PipeStartOn(response, auto_baseline, alpha, Triples)

PipeInit == PipeStart(RESPONSE, TRUE, 2)

\* daemon threads run only while the process lives
Running(th) == pc.main # "exited" /\ pc[th] \notin {"unstarted", "done", "dead"}
Goto(th, l) == pc' = [pc EXCEPT ![th] = l]

(* ---------------------------- sensor thread --------------------------- *)
\* while not stop_event.is_set()
SensorCheck ==
    /\ Running("sensor") /\ pc.sensor = "loop"
    /\ \/ stop_event /\ Goto("sensor", "done")
       \/ ~stop_event /\ samples < MaxSamples /\ Goto("sensor", "read")
    /\ UNCHANGED <<stop_event, adc_bus, offset_bus, drive, steer, samples,
                   s_msg, i_msg, last_t, i_out, c_msg, prev_offset, controller,
                   elapsed, rec_exit, rec_vals>>
    /\ UNCHANGED <<h_vars, f_vars, interp, track>>

\* GrayscaleSensor.read: one get_grayscale_data() call per channel
SensorRead(g1, g2, g3) == <<g1[1], g2[2], g3[3]>>

\* vals = sensor.read(); ADCMessage(t=time(), vals=vals)
SensorSample ==
    /\ Running("sensor") /\ pc.sensor = "read"
    /\ \E g1 \in track, g2 \in track, g3 \in track :
          s_msg' = ADCMessage(samples + 1, SensorRead(g1, g2, g3))
    /\ samples' = samples + 1
    /\ Goto("sensor", "wreq")
    /\ UNCHANGED <<stop_event, adc_bus, offset_bus, drive, steer,
                   i_msg, last_t, i_out, c_msg, prev_offset, controller,
                   elapsed, rec_exit, rec_vals>>
    /\ UNCHANGED <<h_vars, f_vars, interp, track>>

\* sensor.read() raises (bus error of the grayscale module): the thread dies
SensorFault ==
    /\ Running("sensor") /\ pc.sensor = "read"
    /\ Goto("sensor", "dead")
    /\ UNCHANGED <<stop_event, adc_bus, offset_bus, drive, steer, samples,
                   s_msg, i_msg, last_t, i_out, c_msg, prev_offset, controller,
                   elapsed, rec_exit, rec_vals>>
    /\ UNCHANGED <<h_vars, f_vars, interp, track>>

\* adc_bus.write(msg): ask for the write lock; enter and store; leave, then
\* sleep(SENSOR_DT)
SensorWrite ==
    /\ Running("sensor")
    /\ \/ /\ pc.sensor = "wreq"
          /\ adc_bus' = WLockRequest(adc_bus, "sensor")
          /\ Goto("sensor", "wacq")
       \/ /\ pc.sensor = "wacq" /\ WLockFree(adc_bus)
          /\ adc_bus' = BusStore(WLockAcquire(adc_bus, "sensor"), s_msg)
          /\ Goto("sensor", "wrel")
       \/ /\ pc.sensor = "wrel"
          /\ adc_bus' = WLockRelease(adc_bus, "sensor")
          /\ Goto("sensor", "loop")
    /\ UNCHANGED <<stop_event, offset_bus, drive, steer, samples,
                   s_msg, i_msg, last_t, i_out, c_msg, prev_offset, controller,
                   elapsed, rec_exit, rec_vals>>
    /\ UNCHANGED <<h_vars, f_vars, interp, track>>

(* -------------------------- interpreter thread ------------------------ *)
\* while not stop_event.is_set()
InterpCheck ==
    /\ Running("interp") /\ pc.interp = "loop"
    /\ IF stop_event THEN Goto("interp", "done") ELSE Goto("interp", "racq")
    /\ UNCHANGED <<stop_event, adc_bus, offset_bus, drive, steer, samples,
                   s_msg, i_msg, last_t, i_out, c_msg, prev_offset, controller,
                   elapsed, rec_exit, rec_vals>>
    /\ UNCHANGED <<h_vars, f_vars, interp, track>>

\* msg = adc_bus.read(): enter the read lock and load; leave
InterpRead ==
    /\ Running("interp")
    /\ \/ /\ pc.interp = "racq" /\ RLockFree(adc_bus)
          /\ adc_bus' = RLockAcquire(adc_bus, "interp")
          /\ i_msg' = BusLoad(adc_bus)
          /\ Goto("interp", "rrel")
       \/ /\ pc.interp = "rrel"
          /\ adc_bus' = RLockRelease(adc_bus, "interp")
          /\ i_msg' = i_msg
          /\ Goto("interp", "proc")
    /\ UNCHANGED <<stop_event, offset_bus, drive, steer, samples,
                   s_msg, last_t, i_out, c_msg, prev_offset, controller,
                   elapsed, rec_exit, rec_vals>>
    /\ UNCHANGED <<h_vars, f_vars, interp, track>>

\* no message, or the timestamp already processed: sleep and continue
InterpSkip ==
    /\ Running("interp") /\ pc.interp = "proc"
    /\ ~i_msg.some \/ (last_t # -1 /\ i_msg.t = last_t)
    /\ Goto("interp", "loop")
    /\ UNCHANGED <<stop_event, adc_bus, offset_bus, drive, steer, samples,
                   s_msg, i_msg, last_t, i_out, c_msg, prev_offset, controller,
                   elapsed, rec_exit, rec_vals>>
    /\ UNCHANGED <<h_vars, f_vars, interp, track>>

\* a faulty interpreter that processes whatever message it has read
InterpProcess_again ==
    /\ Running("interp") /\ pc.interp = "proc"
    /\ i_msg.some
    /\ last_t' = i_msg.t
    /\ i_out' = OffsetMessage(i_out.t + 1, process(interp, i_msg.vals))
    /\ interp' = [interp EXCEPT !.baseline = baseline_after(interp, i_msg.vals)]
    /\ Goto("interp", "wreq")
    /\ UNCHANGED <<stop_event, adc_bus, offset_bus, drive, steer, samples,
                   s_msg, i_msg, c_msg, prev_offset, controller,
                   elapsed, rec_exit, rec_vals>>
    /\ UNCHANGED <<h_vars, f_vars, track>>

\* last_t = msg.t; offset = interp.process(msg.vals); OffsetMessage(t=time(), ..)
InterpProcess ==
    /\ Running("interp") /\ pc.interp = "proc"
    /\ i_msg.some /\ ~(last_t # -1 /\ i_msg.t = last_t)
    /\ last_t' = i_msg.t
    /\ i_out' = OffsetMessage(i_out.t + 1, process(interp, i_msg.vals))
    /\ interp' = [interp EXCEPT !.baseline = baseline_after(interp, i_msg.vals)]
    /\ Goto("interp", "wreq")
    /\ UNCHANGED <<stop_event, adc_bus, offset_bus, drive, steer, samples,
                   s_msg, i_msg, c_msg, prev_offset, controller,
                   elapsed, rec_exit, rec_vals>>
    /\ UNCHANGED <<h_vars, f_vars, track>>

\* a faulty interpreter that publishes on the bus it reads from
InterpWrite_on_adc_bus ==
    /\ Running("interp")
    /\ \/ /\ pc.interp = "wreq"
          /\ adc_bus' = WLockRequest(adc_bus, "interp")
          /\ Goto("interp", "wacq")
       \/ /\ pc.interp = "wacq" /\ WLockFree(adc_bus)
          /\ adc_bus' = WLockAcquire(adc_bus, "interp")
          /\ Goto("interp", "wrel")
       \/ /\ pc.interp = "wrel"
          /\ adc_bus' = WLockRelease(adc_bus, "interp")
          /\ Goto("interp", "loop")
    /\ UNCHANGED <<stop_event, offset_bus, drive, steer, samples,
                   s_msg, i_msg, last_t, i_out, c_msg, prev_offset, controller,
                   elapsed, rec_exit, rec_vals>>
    /\ UNCHANGED <<h_vars, f_vars, interp, track>>

\* offset_bus.write(msg): ask for the write lock; enter and store; leave,
\* then sleep(INTERP_DT)
InterpWrite ==
    /\ Running("interp")
    /\ \/ /\ pc.interp = "wreq"
          /\ offset_bus' = WLockRequest(offset_bus, "interp")
          /\ Goto("interp", "wacq")
       \/ /\ pc.interp = "wacq" /\ WLockFree(offset_bus)
          /\ offset_bus' = BusStore(WLockAcquire(offset_bus, "interp"), i_out)
          /\ Goto("interp", "wrel")
       \/ /\ pc.interp = "wrel"
          /\ offset_bus' = WLockRelease(offset_bus, "interp")
          /\ Goto("interp", "loop")
    /\ UNCHANGED <<stop_event, adc_bus, drive, steer, samples,
                   s_msg, i_msg, last_t, i_out, c_msg, prev_offset, controller,
                   elapsed, rec_exit, rec_vals>>
    /\ UNCHANGED <<h_vars, f_vars, interp, track>>

(* -------------------------- controller thread ------------------------- *)
\* while not stop_event.is_set()
CtrlCheck ==
    /\ Running("ctrl") /\ pc.ctrl = "loop"
    /\ IF stop_event THEN Goto("ctrl", "done") ELSE Goto("ctrl", "racq")
    /\ UNCHANGED <<stop_event, adc_bus, offset_bus, drive, steer, samples,
                   s_msg, i_msg, last_t, i_out, c_msg, prev_offset, controller,
                   elapsed, rec_exit, rec_vals>>
    /\ UNCHANGED <<h_vars, f_vars, interp, track>>

\* msg = offset_bus.read(): enter the read lock and load; leave
CtrlRead ==
    /\ Running("ctrl")
    /\ \/ /\ pc.ctrl = "racq" /\ RLockFree(offset_bus)
          /\ offset_bus' = RLockAcquire(offset_bus, "ctrl")
          /\ c_msg' = BusLoad(offset_bus)
          /\ Goto("ctrl", "rrel")
       \/ /\ pc.ctrl = "rrel"
          /\ offset_bus' = RLockRelease(offset_bus, "ctrl")
          /\ c_msg' = c_msg
          /\ Goto("ctrl", "act")
    /\ UNCHANGED <<stop_event, adc_bus, drive, steer, samples,
                   s_msg, i_msg, last_t, i_out, prev_offset, controller,
                   elapsed, rec_exit, rec_vals>>
    /\ UNCHANGED <<h_vars, f_vars, interp, track>>

\* msg is None: px.stop(); px.set_dir_servo_angle(0); sleep; continue
CtrlIdle ==
    /\ Running("ctrl")
    /\ \/ /\ pc.ctrl = "act" /\ ~c_msg.some
          /\ drive' = "stop" /\ steer' = steer
          /\ Goto("ctrl", "idle_steer")
       \/ /\ pc.ctrl = "idle_steer"
          /\ steer' = 0 /\ drive' = drive
          /\ Goto("ctrl", "loop")
    /\ UNCHANGED <<stop_event, adc_bus, offset_bus, samples,
                   s_msg, i_msg, last_t, i_out, c_msg, prev_offset, controller,
                   elapsed, rec_exit, rec_vals>>
    /\ UNCHANGED <<h_vars, f_vars, interp, track>>

\* a faulty lost test that lets the controller recover only once
offset_is_None_once(msg) == msg.lost /\ rec_exit = "none"

\* a faulty lost test that never fires
offset_is_None_never(msg) == FALSE

\* offset = msg.offset; if offset is None
offset_is_None(msg) == msg.lost

\* offset is None: px.stop(), then recover_reverse_until_line is entered
CtrlLost ==
    /\ Running("ctrl") /\ pc.ctrl = "act"
    /\ c_msg.some /\ offset_is_None(c_msg)
    /\ drive' = "stop"
    /\ Goto("ctrl", "rec_stop")
    /\ UNCHANGED <<stop_event, adc_bus, offset_bus, steer, samples,
                   s_msg, i_msg, last_t, i_out, c_msg, prev_offset, controller,
                   elapsed, rec_exit, rec_vals>>
    /\ UNCHANGED <<h_vars, f_vars, interp, track>>

\* a faulty tracking cycle with a freshness check by value: it ends the cycle
\* without a drive command when the smoothed offset has not changed
CtrlSteer_skips_repeat ==
    /\ Running("ctrl") /\ pc.ctrl = "act"
    /\ c_msg.some /\ ~offset_is_None(c_msg)
    /\ LET offset == smooth(deadband(c_msg.offset), prev_offset)
           r == control(controller, offset)
       IN  /\ prev_offset' = offset
           /\ controller' = r.state
           /\ steer' = r.angle
           /\ IF controller.has_prev /\ controller.prev_error = offset
                 THEN Goto("ctrl", "loop")
               ELSE Goto("ctrl", "fwd")
    /\ UNCHANGED <<stop_event, adc_bus, offset_bus, drive, samples,
                   s_msg, i_msg, last_t, i_out, c_msg, elapsed, rec_exit,
                   rec_vals>>
    /\ UNCHANGED <<h_vars, f_vars, interp, track>>

\* deadband + smoothing, then controller.control(offset) commands the servo
CtrlSteer ==
    /\ Running("ctrl") /\ pc.ctrl = "act"
    /\ c_msg.some /\ ~offset_is_None(c_msg)
    /\ LET offset == smooth(deadband(c_msg.offset), prev_offset)
           r == control(controller, offset)
       IN  /\ prev_offset' = offset
           /\ controller' = r.state
           /\ steer' = r.angle
    /\ Goto("ctrl", "fwd")
    /\ UNCHANGED <<stop_event, adc_bus, offset_bus, drive, samples,
                   s_msg, i_msg, last_t, i_out, c_msg, elapsed, rec_exit,
                   rec_vals>>
    /\ UNCHANGED <<h_vars, f_vars, interp, track>>

\* px.forward(FWD_POWER); sleep(CONTROL_DT)
CtrlForward ==
    /\ Running("ctrl") /\ pc.ctrl = "fwd"
    /\ drive' = "forward"
    /\ Goto("ctrl", "loop")
    /\ UNCHANGED <<stop_event, adc_bus, offset_bus, steer, samples,
                   s_msg, i_msg, last_t, i_out, c_msg, prev_offset, controller,
                   elapsed, rec_exit, rec_vals>>
    /\ UNCHANGED <<h_vars, f_vars, interp, track>>

\* a faulty recovery that drives backward before it sets the steering
RecoverStart_backward_first ==
    /\ Running("ctrl")
    /\ \/ /\ pc.ctrl = "rec_stop"
          /\ drive' = "stop" /\ steer' = steer
          /\ UNCHANGED <<elapsed, rec_exit, rec_vals>>
          /\ Goto("ctrl", "rec_steer")
       \/ /\ pc.ctrl = "rec_steer"
          /\ drive' = "backward" /\ steer' = steer
          /\ UNCHANGED <<elapsed, rec_exit, rec_vals>>
          /\ Goto("ctrl", "rec_back")
       \/ /\ pc.ctrl = "rec_back"
          /\ steer' = RECOVER_STEER * Scale /\ drive' = drive
          /\ elapsed' = 0
          /\ rec_exit' = "none"
          /\ rec_vals' = rec_vals
          /\ Goto("ctrl", "rec_loop")
    /\ UNCHANGED <<stop_event, adc_bus, offset_bus, samples,
                   s_msg, i_msg, last_t, i_out, c_msg, prev_offset, controller>>
    /\ UNCHANGED <<h_vars, f_vars, interp, track>>

\* recover_reverse_until_line, before the loop: px.stop(); sleep(0.15);
\* px.set_dir_servo_angle(RECOVER_STEER); px.backward(REV_POWER); t0 = time()
RecoverStart ==
    /\ Running("ctrl")
    /\ \/ /\ pc.ctrl = "rec_stop"
          /\ drive' = "stop" /\ steer' = steer
          /\ UNCHANGED <<elapsed, rec_exit, rec_vals>>
          /\ Goto("ctrl", "rec_steer")
       \/ /\ pc.ctrl = "rec_steer"
          /\ steer' = RECOVER_STEER * Scale /\ drive' = drive
          /\ UNCHANGED <<elapsed, rec_exit, rec_vals>>
          /\ Goto("ctrl", "rec_back")
       \/ /\ pc.ctrl = "rec_back"
          /\ drive' = "backward" /\ steer' = steer
          /\ elapsed' = 0
          /\ rec_exit' = "none"
          /\ rec_vals' = rec_vals
          /\ Goto("ctrl", "rec_loop")
    /\ UNCHANGED <<stop_event, adc_bus, offset_bus, samples,
                   s_msg, i_msg, last_t, i_out, c_msg, prev_offset, controller>>
    /\ UNCHANGED <<h_vars, f_vars, interp, track>>

\* a faulty timeout test that already fires at RECOVER_MAX_TIME
timed_out_at_limit(e) == e >= RECOVER_MAX_TIME

\* if (time() - t0) > RECOVER_MAX_TIME: break
timed_out(e) == e > RECOVER_MAX_TIME

\* a faulty poll loop without the event check (while True)
RecoverPoll_ignores_event ==
    /\ Running("ctrl") /\ pc.ctrl = "rec_loop"
    /\ \E vals \in track :
         /\ rec_vals' = vals
         /\ IF line_seen_thresh(vals)
              THEN /\ rec_exit' = "seen" /\ elapsed' = elapsed
                   /\ Goto("ctrl", "rec_end")
            ELSE IF timed_out(elapsed)
              THEN /\ rec_exit' = "timeout" /\ elapsed' = elapsed
                   /\ Goto("ctrl", "rec_end")
            ELSE /\ \E d \in TimeSteps : elapsed' = elapsed + d
                 /\ UNCHANGED <<rec_exit, pc>>
    /\ UNCHANGED <<stop_event, adc_bus, offset_bus, drive, steer, samples,
                   s_msg, i_msg, last_t, i_out, c_msg, prev_offset, controller>>
    /\ UNCHANGED <<h_vars, f_vars, interp, track>>

\* one pass of the poll loop: the event check, the raw poll, the two breaks,
\* and sleep(RECOVER_DT), during which the clock advances
RecoverPoll ==
    /\ Running("ctrl") /\ pc.ctrl = "rec_loop"
    /\ \/ /\ stop_event
          /\ rec_exit' = "cancel"
          /\ UNCHANGED <<elapsed, rec_vals>>
          /\ Goto("ctrl", "rec_end")
       \/ /\ ~stop_event
          /\ \E vals \in track :
               /\ rec_vals' = vals
               /\ IF line_seen_thresh(vals)
                    THEN /\ rec_exit' = "seen" /\ elapsed' = elapsed
                         /\ Goto("ctrl", "rec_end")
                  ELSE IF timed_out(elapsed)
                    THEN /\ rec_exit' = "timeout" /\ elapsed' = elapsed
                         /\ Goto("ctrl", "rec_end")
                  ELSE /\ \E d \in TimeSteps : elapsed' = elapsed + d
                       /\ UNCHANGED <<rec_exit, pc>>
    /\ UNCHANGED <<stop_event, adc_bus, offset_bus, drive, steer, samples,
                   s_msg, i_msg, last_t, i_out, c_msg, prev_offset, controller>>
    /\ UNCHANGED <<h_vars, f_vars, interp, track>>

\* px.stop(); sleep(0.1); back in the thread: controller.reset();
\* prev_offset = 0.0; sleep(CONTROL_DT); continue
RecoverEnd ==
    /\ Running("ctrl") /\ pc.ctrl = "rec_end"
    /\ drive' = "stop"
    /\ controller' = reset(controller)
    /\ prev_offset' = 0
    /\ Goto("ctrl", "loop")
    /\ UNCHANGED <<stop_event, adc_bus, offset_bus, steer, samples,
                   s_msg, i_msg, last_t, i_out, c_msg, elapsed, rec_exit,
                   rec_vals>>
    /\ UNCHANGED <<h_vars, f_vars, interp, track>>

\* a call into the car raises (bus error): the controller thread dies
CtrlFault ==
    /\ Running("ctrl")
    /\ pc.ctrl \in {"act", "idle_steer", "fwd", "rec_stop", "rec_steer",
                    "rec_back", "rec_loop", "rec_end"}
    /\ Goto("ctrl", "dead")
    /\ UNCHANGED <<stop_event, adc_bus, offset_bus, drive, steer, samples,
                   s_msg, i_msg, last_t, i_out, c_msg, prev_offset, controller,
                   elapsed, rec_exit, rec_vals>>
    /\ UNCHANGED <<h_vars, f_vars, interp, track>>

(* ------------------------------ launcher ------------------------------ *)
\* t_sensor.start(); t_interp.start(); t_ctrl.start()
MainStart ==
    /\ \/ /\ pc.main = "start_sensor"
          /\ pc' = [pc EXCEPT !.main = "start_interp", !.sensor = "loop"]
       \/ /\ pc.main = "start_interp"
          /\ pc' = [pc EXCEPT !.main = "start_ctrl", !.interp = "loop"]
       \/ /\ pc.main = "start_ctrl"
          /\ pc' = [pc EXCEPT !.main = "wait", !.ctrl = "loop"]
    /\ UNCHANGED <<stop_event, adc_bus, offset_bus, drive, steer, samples,
                   s_msg, i_msg, last_t, i_out, c_msg, prev_offset, controller,
                   elapsed, rec_exit, rec_vals>>
    /\ UNCHANGED <<h_vars, f_vars, interp, track>>

\* while t_ctrl.is_alive(): sleep(0.1)  -- left when the controller is gone
MainWait ==
    /\ pc.main = "wait"
    /\ pc.ctrl \in {"done", "dead"}
    /\ Goto("main", "set")
    /\ UNCHANGED <<stop_event, adc_bus, offset_bus, drive, steer, samples,
                   s_msg, i_msg, last_t, i_out, c_msg, prev_offset, controller,
                   elapsed, rec_exit, rec_vals>>
    /\ UNCHANGED <<h_vars, f_vars, interp, track>>

\* except KeyboardInterrupt: pass  -- Ctrl+C anywhere in the try block
KeyboardInterrupt ==
    /\ pc.main \in {"start_sensor", "start_interp", "start_ctrl", "wait"}
    /\ Goto("main", "set")
    /\ UNCHANGED <<stop_event, adc_bus, offset_bus, drive, steer, samples,
                   s_msg, i_msg, last_t, i_out, c_msg, prev_offset, controller,
                   elapsed, rec_exit, rec_vals>>
    /\ UNCHANGED <<h_vars, f_vars, interp, track>>

\* a faulty shutdown that mirrors the steering instead of centring it
MainFinally_mirror ==
    /\ \/ /\ pc.main = "set"
          /\ stop_event' = TRUE /\ UNCHANGED <<drive, steer>>
          /\ Goto("main", "stop")
       \/ /\ pc.main = "stop"
          /\ drive' = "stop" /\ UNCHANGED <<stop_event, steer>>
          /\ Goto("main", "steer")
       \/ /\ pc.main = "steer"
          /\ steer' = -steer /\ UNCHANGED <<stop_event, drive>>
          /\ Goto("main", "sleep")
       \/ /\ pc.main = "sleep"
          /\ UNCHANGED <<stop_event, drive, steer>>
          /\ Goto("main", "exited")
    /\ UNCHANGED <<adc_bus, offset_bus, samples,
                   s_msg, i_msg, last_t, i_out, c_msg, prev_offset, controller,
                   elapsed, rec_exit, rec_vals>>
    /\ UNCHANGED <<h_vars, f_vars, interp, track>>

\* finally: stop_event.set(); px.stop(); px.set_dir_servo_angle(0);
\* sleep(0.2); return, which ends the process and its daemon threads
MainFinally ==
    /\ \/ /\ pc.main = "set"
          /\ stop_event' = TRUE /\ UNCHANGED <<drive, steer>>
          /\ Goto("main", "stop")
       \/ /\ pc.main = "stop"
          /\ drive' = "stop" /\ UNCHANGED <<stop_event, steer>>
          /\ Goto("main", "steer")
       \/ /\ pc.main = "steer"
          /\ steer' = 0 /\ UNCHANGED <<stop_event, drive>>
          /\ Goto("main", "sleep")
       \/ /\ pc.main = "sleep"
          /\ UNCHANGED <<stop_event, drive, steer>>
          /\ Goto("main", "exited")
    /\ UNCHANGED <<adc_bus, offset_bus, samples,
                   s_msg, i_msg, last_t, i_out, c_msg, prev_offset, controller,
                   elapsed, rec_exit, rec_vals>>
    /\ UNCHANGED <<h_vars, f_vars, interp, track>>

PipeNext ==
    \/ SensorCheck \/ SensorSample \/ SensorFault \/ SensorWrite
    \/ InterpCheck \/ InterpRead \/ InterpSkip \/ InterpProcess \/ InterpWrite
    \/ CtrlCheck \/ CtrlRead \/ CtrlIdle \/ CtrlLost \/ CtrlSteer \/ CtrlForward
    \/ RecoverStart \/ RecoverPoll \/ RecoverEnd \/ CtrlFault
    \/ MainStart \/ MainWait \/ KeyboardInterrupt \/ MainFinally

(* ------------------- the Bus on its own: 1 writer, N readers ---------- *)
Readers == {"r1", "r2"}

HInit ==
    /\ h_bus = Bus(NoADC)
    /\ h_pc = [w |-> "idle", r1 |-> "idle", r2 |-> "idle"]
    /\ h_ret = [r \in Readers |-> NoADC]
    /\ h_prev = [r \in Readers |-> NoADC]
    /\ h_done = 0

\* Bus.write(msg) by the writer; message k is the k-th one written
HWrite ==
    /\ \/ /\ h_pc.w = "idle" /\ h_done < MaxWrites
          /\ h_bus' = WLockRequest(h_bus, "w")
          /\ h_pc' = [h_pc EXCEPT !.w = "wacq"]
          /\ h_done' = h_done
       \/ /\ h_pc.w = "wacq" /\ WLockFree(h_bus)
          /\ h_bus' = WLockAcquire(h_bus, "w")
          /\ h_pc' = [h_pc EXCEPT !.w = "wstore"]
          /\ h_done' = h_done
       \/ /\ h_pc.w = "wstore"
          /\ h_bus' = BusStore(h_bus, ADCMessage(h_done + 1, <<0, 0, 0>>))
          /\ h_pc' = [h_pc EXCEPT !.w = "wrel"]
          /\ h_done' = h_done
       \/ /\ h_pc.w = "wrel"
          /\ h_bus' = WLockRelease(h_bus, "w")
          /\ h_pc' = [h_pc EXCEPT !.w = "idle"]
          /\ h_done' = h_done + 1
    /\ UNCHANGED <<h_ret, h_prev>>
    /\ UNCHANGED <<pipe_vars, f_vars>>

\* Bus.read() by reader r
HRead(r) ==
    /\ \/ /\ h_pc[r] = "idle" /\ RLockFree(h_bus)
          /\ h_bus' = RLockAcquire(h_bus, r)
          /\ h_pc' = [h_pc EXCEPT ![r] = "rload"]
          /\ UNCHANGED <<h_ret, h_prev>>
       \/ /\ h_pc[r] = "rload"
          /\ h_ret' = [h_ret EXCEPT ![r] = BusLoad(h_bus)]
          /\ h_prev' = [h_prev EXCEPT ![r] = h_ret[r]]
          /\ h_pc' = [h_pc EXCEPT ![r] = "rrel"]
          /\ h_bus' = h_bus
       \/ /\ h_pc[r] = "rrel"
          /\ h_bus' = RLockRelease(h_bus, r)
          /\ h_pc' = [h_pc EXCEPT ![r] = "idle"]
          /\ UNCHANGED <<h_ret, h_prev>>
    /\ h_done' = h_done
    /\ UNCHANGED <<pipe_vars, f_vars>>

HReadAny == \E r \in Readers : HRead(r)

BusNext == HWrite \/ HReadAny

(* --------------------------- specifications --------------------------- *)
(* ---------------------- the interpreter by itself --------------------- *)
\* the two GrayscaleInterpreter classes
Variants == {"concurrent", "complex_line"}

\* constructor arguments that are tried
Polarities == {"dark", "light", "Dark", "LIGHT", "left"}
Sensitivities == {120, 300}
Thresholds == {850, 500}

\* raw readings of one channel, and the triples made of them
Levels == {200, 500, 849, 850, 860, 900, 1000}
FTriples == {<<a, b, c>> : a \in Levels, b \in Levels, c \in Levels}

NoInterp ==
    [raised |-> FALSE, sensitivity |-> 0, polarity |-> "",
     auto_baseline |-> FALSE, alpha |-> 0, baseline |-> <<>>, thresh |-> 0]
NoOut == [some |-> FALSE, raised |-> FALSE, lost |-> FALSE, offset |-> 0]
Out(raised, lost, offset) ==
    [some |-> TRUE, raised |-> raised, lost |-> lost, offset |-> offset]

\* nothing constructed yet, for given arguments
FStart(variant, sensitivity, polarity, thresh) ==
    /\ f_pc = "new"
    /\ f_args = [variant |-> variant, sensitivity |-> sensitivity,
                 polarity |-> polarity, thresh |-> thresh]
    /\ f_self = NoInterp
    /\ f_vals = <<0, 0, 0>>
    /\ f_out = NoOut

\* the arguments run_level4_grayscale passes
FIdle == FStart("concurrent", SENSITIVITY, POLARITY, THRESH)

FInit ==
    \E variant \in Variants, sensitivity \in Sensitivities,
       polarity \in Polarities, thresh \in Thresholds :
        FStart(variant, sensitivity, polarity, thresh)

\* interp = GrayscaleInterpreter(sensitivity=..., polarity=..., thresh=...),
\* auto_baseline and alpha at their defaults
FConstruct ==
    /\ f_pc = "new" /\ f_args.variant = "concurrent"
    /\ f_self' = GrayscaleInterpreter(f_args.sensitivity, f_args.polarity,
                                      TRUE, 2, f_args.thresh)
    /\ f_pc' = IF f_self'.raised THEN "config_error" ELSE "ready"
    /\ UNCHANGED <<f_args, f_vals, f_out>>
    /\ UNCHANGED <<pipe_vars, h_vars>>

\* offset = interp.process(vals), the first call
FProcess ==
    /\ f_pc = "ready" /\ f_args.variant = "concurrent"
    /\ \E vals \in FTriples :
         LET r == GrayscaleInterpreter_process(f_self, vals)
         IN  /\ f_vals' = vals
             /\ f_out' = Out(FALSE, r.lost, r.offset)
             /\ f_self' = [f_self EXCEPT
                              !.baseline = baseline_after(f_self, vals)]
    /\ f_pc' = "processed"
    /\ UNCHANGED f_args
    /\ UNCHANGED <<pipe_vars, h_vars>>

\* complex_line.py: interp = GrayscaleInterpreter(sensitivity=..., polarity=...)
CLConstruct ==
    /\ f_pc = "new" /\ f_args.variant = "complex_line"
    /\ f_self' = complex_line_GrayscaleInterpreter(f_args.sensitivity,
                                                   f_args.polarity)
    /\ f_pc' = IF f_self'.raised THEN "config_error" ELSE "ready"
    /\ UNCHANGED <<f_args, f_vals, f_out>>
    /\ UNCHANGED <<pipe_vars, h_vars>>

\* complex_line.py: offset = interp.process(v), the first call
CLProcess ==
    /\ f_pc = "ready" /\ f_args.variant = "complex_line"
    /\ \E vals \in FTriples :
         LET r == complex_line_process(f_self, vals)
         IN  /\ f_vals' = vals
             /\ f_out' = Out(r.raised, r.lost, r.offset)
             /\ f_pc' = IF r.raised THEN "run_error" ELSE "processed"
    /\ UNCHANGED <<f_args, f_self>>
    /\ UNCHANGED <<pipe_vars, h_vars>>

InterpInit == PipeInit /\ HInit /\ FInit
InterpNext == FConstruct \/ FProcess \/ CLConstruct \/ CLProcess

\* an interpreter constructed and used on its own
InterpSpec == InterpInit /\ [][InterpNext]_vars

(* ------------------------------- systems ------------------------------ *)
Init == PipeInit /\ HInit /\ FIdle
Next == PipeNext

\* the pipeline
Spec == Init /\ [][Next]_vars

\* the pipeline under a fair scheduler: every thread that can run does run;
\* Ctrl+C and faults are never forced
FairSpec ==
    /\ Spec
    /\ WF_vars(SensorCheck \/ SensorSample \/ SensorWrite)
    /\ WF_vars(InterpCheck \/ InterpRead \/ InterpSkip \/ InterpProcess
               \/ InterpWrite)
    /\ WF_vars(CtrlCheck \/ CtrlRead \/ CtrlIdle \/ CtrlLost \/ CtrlSteer
               \/ CtrlForward \/ RecoverStart \/ RecoverPoll \/ RecoverEnd)
    /\ WF_vars(MainStart \/ MainWait \/ MainFinally)

\* one Bus, one writer, several readers
BusSpec == Init /\ [][BusNext]_vars
FairBusSpec == BusSpec /\ WF_vars(HWrite) /\ \A r \in Readers : WF_vars(HRead(r))

(* ----------------------- the controller by itself --------------------- *)
\* values of the RESPONSE knob (0.6 gentle ... 1.6 aggressive), in hundredths
Responses == {100, 150}

\* offsets the interpreter can publish, in units of 1/Scale
Offsets == {-Scale, -3, 0, Scale \div 2, Scale}

\* offset_bus.write(OffsetMessage(t, offset)) with any offset or None, as one
\* step: the interpreter thread seen from the controller's side
PDPublish ==
    /\ WLockFree(offset_bus)
    /\ offset_bus.message.t < MaxOffsets
    /\ \E out \in {[lost |-> TRUE, offset |-> 0]}
                   \cup {[lost |-> FALSE, offset |-> o] : o \in Offsets} :
           offset_bus' = BusStore(offset_bus,
                                  OffsetMessage(offset_bus.message.t + 1, out))
    /\ UNCHANGED <<pc, stop_event, adc_bus, drive, steer, samples,
                   s_msg, i_msg, last_t, i_out, c_msg, prev_offset, controller,
                   elapsed, rec_exit, rec_vals>>
    /\ UNCHANGED <<h_vars, f_vars, interp, track>>

PDInit == (\E r \in Responses : PipeStart(r, TRUE, 2)) /\ HInit /\ FIdle

PDNext ==
    \/ MainStart
    \/ PDPublish
    \/ CtrlCheck
    \/ CtrlRead
    \/ CtrlIdle
    \/ CtrlLost
    \/ CtrlSteer
    \/ CtrlForward
    \/ RecoverStart
    \/ RecoverPoll
    \/ RecoverEnd

\* the controller thread against every content of offset_bus
PDSpec == PDInit /\ [][PDNext]_vars

\* the same under a fair scheduler: the launcher starts the threads and the
\* controller thread keeps running
FairPDSpec ==
    /\ PDSpec
    /\ WF_vars(MainStart)
    /\ WF_vars(CtrlCheck \/ CtrlRead \/ CtrlIdle \/ CtrlLost \/ CtrlSteer
               \/ CtrlForward \/ RecoverStart \/ RecoverPoll \/ RecoverEnd)

(* ------------------- the interpreter thread by itself ----------------- *)
\* values of the alpha argument, in hundredths: the default 0.02, a half,
\* and one above 1
Alphas == {2, 50, 150}

\* the triples the sensor can publish
ITriples == Triples \cup {<<500, 500, 500>>}

\* adc_bus.write(ADCMessage(t, vals)) with any triple, as one step: the
\* sensor thread seen from the interpreter's side
ADCPublish ==
    /\ WLockFree(adc_bus)
    /\ adc_bus.message.t < MaxSamples
    /\ \E vals \in ITriples :
           adc_bus' = BusStore(adc_bus,
                               ADCMessage(adc_bus.message.t + 1, vals))
    /\ UNCHANGED <<pc, stop_event, offset_bus, drive, steer, samples,
                   s_msg, i_msg, last_t, i_out, c_msg, prev_offset, controller,
                   elapsed, rec_exit, rec_vals>>
    /\ UNCHANGED <<h_vars, f_vars, interp, track>>

ITInit ==
    /\ \E auto_baseline \in BOOLEAN, alpha \in Alphas :
           PipeStart(RESPONSE, auto_baseline, alpha)
    /\ HInit /\ FIdle

ITNext ==
    \/ MainStart
    \/ ADCPublish
    \/ InterpCheck
    \/ InterpRead
    \/ InterpSkip
    \/ InterpProcess
    \/ InterpWrite

\* the interpreter thread against every content of adc_bus
ITSpec == ITInit /\ [][ITNext]_vars

(* ------------------------ the shutdown by itself ---------------------- *)
\* steering angles the car can be left at, in units of 1/Scale degree
SteerAngles == {a * Scale : a \in -MAX_ANGLE..MAX_ANGLE}

\* the finally block is entered with the car moving and the controller
\* thread dead
ShutdownInit ==
    /\ pc = [main |-> "set", sensor |-> "loop", interp |-> "loop",
             ctrl |-> "dead"]
    /\ stop_event = FALSE
    /\ adc_bus = Bus(NoADC)
    /\ offset_bus = Bus(NoOffsetMsg)
    /\ drive \in {"forward", "backward"}
    /\ steer \in SteerAngles
    /\ samples = 0
    /\ s_msg = NoADC
    /\ i_msg = NoADC
    /\ last_t = -1
    /\ i_out = NoOffsetMsg
    /\ c_msg = NoOffsetMsg
    /\ prev_offset = 0
    /\ controller = PDController(MAX_ANGLE, RESPONSE, DAMPING, CONTROL_RATE)
    /\ elapsed = 0
    /\ rec_exit = "none"
    /\ rec_vals = <<0, 0, 0>>
    /\ interp = GrayscaleInterpreter(SENSITIVITY, POLARITY, TRUE, 2, THRESH)
    /\ track = Triples
    /\ HInit /\ FIdle

\* the statements of the finally block are run once more
ShutdownAgain ==
    /\ pc.main = "exited"
    /\ Goto("main", "set")
    /\ UNCHANGED <<stop_event, adc_bus, offset_bus, drive, steer, samples,
                   s_msg, i_msg, last_t, i_out, c_msg, prev_offset, controller,
                   elapsed, rec_exit, rec_vals>>
    /\ UNCHANGED <<h_vars, f_vars, interp, track>>

ShutdownNext == MainFinally \/ ShutdownAgain

\* the shutdown sequence on its own, run any number of times
ShutdownSpec == ShutdownInit /\ [][ShutdownNext]_vars

(* ------------------------ the sensor thread by itself ----------------- *)
\* a track with the line under the left probe at one moment and under the
\* right probe at another
Crossing == { <<200, 1000, 1000>>, <<1000, 1000, 200>> }

SensorInit == PipeStartOn(RESPONSE, TRUE, 2, Crossing) /\ HInit /\ FIdle

\* sensor_thread_fn under the launcher; the other two threads are started
\* but never scheduled
SensorNext ==
    \/ MainStart \/ SensorCheck \/ SensorSample \/ SensorFault \/ SensorWrite
    \/ KeyboardInterrupt \/ MainFinally

SensorSpec == SensorInit /\ [][SensorNext]_vars

(* ------------------------------- claims ------------------------------- *)
Gone(th) == pc[th] \in {"unstarted", "done", "dead"}
Lost(m) == m.some /\ m.lost

\* C1: once the launcher has commanded the final neutral state (stop(),
\* steering 0), the car stays there: the last drive command is stop and the
\* last steering command is 0, whatever the controller was doing.
C1_FinalNeutralIsLast ==
    pc.main \in {"sleep", "exited"} => drive = "stop" /\ steer = 0

\* C2: the launcher commands the final neutral state only after all three
\* threads have seen the event and exited.
C2_StopAfterTasksExit ==
    pc.main \in {"steer", "sleep", "exited"} => \A th \in Threads : Gone(th)

\* C3: a fault that kills any one of the three threads is always followed by
\* the launcher setting the event and running the stop-on-exit sequence.
C3_FaultLeadsToShutdown ==
    \A th \in Threads :
        (pc[th] = "dead") ~> (stop_event /\ pc.main \in {"sleep", "exited"})

\* C4: a triple with no strength and no edge is published as offset None, and
\* the controller cycle that reads a None offset starts the recovery maneuver
\* (its first command is stop) and commands no forward drive.
C4_LostStartsRecovery ==
    /\ [](pc.interp \in {"wreq", "wacq", "wrel"}
            /\ i_msg.vals = <<1000, 1000, 1000>> => i_out.lost)
    /\ [][(pc.ctrl = "act" /\ Lost(c_msg) /\ pc'.ctrl \notin {"act", "dead"})
            => pc'.ctrl = "rec_stop" /\ drive' = "stop"]_vars
    /\ [](pc.ctrl = "fwd" => ~Lost(c_msg))

C4_Witness == pc.ctrl = "rec_stop" /\ Lost(c_msg) /\ drive = "stop"
                /\ i_msg.vals = <<1000, 1000, 1000>>

\* a channel reading on the line side of the threshold
Crosses(v) == IF POLARITY = "dark" THEN v < THRESH ELSE v > THRESH

\* C5: the poll loop is left (cancellation aside) exactly when a raw poll
\* shows a channel across the threshold or the elapsed time exceeds
\* RECOVER_MAX_TIME; after the maneuver, before the next cycle reads the
\* mailbox, the car is stopped and previous_error = 0, has_previous = false.
C5_RecoveryExit ==
    /\ [][(pc.ctrl = "rec_loop" /\ pc'.ctrl = "rec_end" /\ ~stop_event)
            => \/ \E i \in 1..3 : Crosses(rec_vals'[i])
               \/ elapsed > RECOVER_MAX_TIME]_vars
    /\ [][(pc.ctrl = "rec_loop" /\ pc'.ctrl = "rec_loop" /\ elapsed' # elapsed)
            => /\ \A i \in 1..3 : ~Crosses(rec_vals'[i])
               /\ elapsed <= RECOVER_MAX_TIME]_vars
    /\ [](pc.ctrl \in {"loop", "racq"} /\ Lost(c_msg)
            => drive = "stop" /\ controller.prev_error = 0
               /\ ~controller.has_prev)

C5_Witness ==
    /\ pc.ctrl = "racq" /\ Lost(c_msg) /\ rec_exit = "timeout"
    /\ ~Lost(offset_bus.message) /\ ~controller.has_prev /\ drive = "stop"

\* C6 as stated: a recovery in which no poll sees the line is back in
\* Tracking at or before t0 + RECOVER_MAX_TIME.
C6_EndsByMaxTime ==
    (pc.ctrl \in {"rec_loop", "rec_end"} /\ rec_exit \in {"none", "timeout"})
        => elapsed <= RECOVER_MAX_TIME

\* C6 amended: a recovery in which no poll sees the line and that is not
\* cancelled ends at the first poll that finds the elapsed time above
\* RECOVER_MAX_TIME, so strictly after t0 + RECOVER_MAX_TIME, and stop() has
\* been issued when control is back in Tracking.
C6_EndsAtFirstPollPastMaxTime ==
    /\ [](pc.ctrl = "rec_end" /\ rec_exit = "timeout"
            => elapsed > RECOVER_MAX_TIME)
    /\ [][(pc.ctrl = "rec_loop" /\ ~stop_event /\ elapsed > RECOVER_MAX_TIME
             /\ pc'.ctrl \notin {"rec_loop", "dead"})
            => pc'.ctrl = "rec_end"]_vars
    /\ [][(pc.ctrl = "rec_loop" /\ elapsed' # elapsed)
            => elapsed <= RECOVER_MAX_TIME]_vars
    /\ [][(pc.ctrl = "rec_end" /\ pc'.ctrl = "loop") => drive' = "stop"]_vars

C6_Witness ==
    pc.ctrl = "loop" /\ rec_exit = "timeout" /\ elapsed > RECOVER_MAX_TIME
        /\ drive = "stop" /\ Lost(c_msg)

\* C7 as stated: after a recovery the controller starts another one only on
\* an OffsetSample published after the one that triggered the previous one.
C7_RecoversOnlyOnNewerSample ==
    [][(pc.ctrl = "racq" /\ pc'.ctrl = "rrel" /\ Lost(c_msg) /\ Lost(c_msg'))
         => c_msg'.t > c_msg.t]_vars

\* C7 amended: after a recovery the car is stopped, and the next cycle acts
\* on whatever OffsetSample the mailbox then holds, the one that triggered
\* the previous recovery included: it starts another recovery exactly when
\* that sample reports None.
C7_RecoversOnLatestSample ==
    /\ [][(pc.ctrl = "racq" /\ pc'.ctrl = "rrel" /\ Lost(c_msg))
            => drive = "stop" /\ c_msg' = offset_bus.message]_vars
    /\ [][(rec_exit # "none" /\ pc.ctrl = "act" /\ c_msg.some
             /\ pc'.ctrl \notin {"act", "dead"})
            => (pc'.ctrl = "rec_stop") = c_msg.lost]_vars

\* a second recovery on the sample that triggered the first
C7_Witness ==
    pc.ctrl = "rec_stop" /\ rec_exit # "none" /\ c_msg.t = 1 /\ Lost(c_msg)

\* the message the k-th write of the stand-alone Bus stores; None before it
Written(k) == IF k = 0 THEN NoADC ELSE ADCMessage(k, <<0, 0, 0>>)

\* C8: with one writer and several readers, what a read() loads under the
\* read lock is None if no write has completed and otherwise the message of
\* the most recently completed write, never an older or a half-written one.
C8_ReadsLatestCompletedWrite ==
    \A r \in Readers : h_pc[r] = "rrel" => h_ret[r] = Written(h_done)

C8_Witness ==
    /\ h_pc.r1 = "rrel" /\ h_pc.r2 = "rrel" /\ h_pc.w = "wacq"
    /\ h_done = 2 /\ h_ret.r1.t = 2 /\ h_ret.r2.t = 2

\* C9: the messages successive read() calls return to one caller never go
\* back in write order.
C9_MonotonicReads ==
    \A r \in Readers :
        /\ h_ret[r].t >= h_prev[r].t
        /\ h_prev[r].some => h_ret[r].some

C9_Witness ==
    /\ h_prev.r1.some /\ h_ret.r1.t > h_prev.r1.t
    /\ h_ret.r2.some /\ h_ret.r2.t < h_ret.r1.t

\* C10: under fair scheduling a writer that has asked for the lock stores
\* its message, however often the readers come back.
C10_WriterNotStarved == (h_pc.w = "wacq") ~> (h_pc.w = "wrel")

C10_Witness ==
    h_pc.w = "wacq" /\ h_bus.readers = Readers /\ h_done >= 1

\* the threads holding or awaiting a lock of bus b
LockUsers(b) == b.readers \cup b.writer \cup b.wwait

\* C11: no task waits for another task's data: a read of a mailbox, empty or
\* not, and a write to it can proceed whenever the task at the other end is
\* not itself inside an operation on that mailbox, and a task that has
\* stopped (exited or died) holds no lock, so the others keep cycling.
C11_NoWaitingOnPeers ==
    /\ (Running("interp") /\ pc.interp = "racq"
           /\ pc.sensor \notin {"wacq", "wrel"}) => ENABLED InterpRead
    /\ (Running("ctrl") /\ pc.ctrl = "racq"
           /\ pc.interp \notin {"wacq", "wrel"}) => ENABLED CtrlRead
    /\ (Running("sensor") /\ pc.sensor = "wacq" /\ pc.interp # "rrel")
           => ENABLED SensorWrite
    /\ (Running("interp") /\ pc.interp = "wacq" /\ pc.ctrl # "rrel")
           => ENABLED InterpWrite
    /\ \A th \in Threads :
           Gone(th) => th \notin LockUsers(adc_bus) \cup LockUsers(offset_bus)

\* the sensor is dead, the interpreter skips a cycle on the stale sample and
\* the controller is about to read the mailbox again
C11_Witness ==
    /\ pc.sensor = "dead" /\ pc.interp = "proc" /\ i_msg.t = last_t
    /\ pc.ctrl = "racq" /\ c_msg.some /\ pc.main = "wait"

\* C12: once the event is set every task sees it at its next check and exits
\* cleanly: under fair scheduling all three threads terminate.
C12_AllTasksExit == stop_event ~> (\A th \in Threads : Gone(th))

\* the next step of task th is a call into the car (px)
AtCar(th) ==
    CASE th = "sensor" -> Running("sensor") /\ pc.sensor = "read"
      [] th = "interp" -> FALSE
      [] th = "ctrl" -> /\ Running("ctrl")
                        /\ pc.ctrl \in {"act", "idle_steer", "fwd", "rec_stop",
                                        "rec_steer", "rec_back", "rec_loop",
                                        "rec_end"}
      [] th = "main" -> pc.main \in {"stop", "steer"}

\* C13: apart from the mailboxes and the event nothing is shared: the car is
\* never accessed by two tasks at the same time.
C13_CarNotShared ==
    \A t1 \in Threads \cup {"main"}, t2 \in Threads \cup {"main"} :
        (AtCar(t1) /\ AtCar(t2)) => t1 = t2

\* C14: adc_bus is written only by the sensor and read only by the
\* interpreter, offset_bus is written only by the interpreter and read only
\* by the controller, which writes to no bus: each bus has one writer at most.
C14_OneWayDataFlow ==
    /\ adc_bus.writer \cup adc_bus.wwait \subseteq {"sensor"}
    /\ adc_bus.readers \subseteq {"interp"}
    /\ offset_bus.writer \cup offset_bus.wwait \subseteq {"interp"}
    /\ offset_bus.readers \subseteq {"ctrl"}
    /\ adc_bus.message.some => adc_bus.message.t \in 1..s_msg.t
    /\ offset_bus.message.some => offset_bus.message.t \in 1..i_out.t
    /\ i_msg.some => i_msg.t \in 1..adc_bus.message.t
    /\ c_msg.some => c_msg.t \in 1..offset_bus.message.t

C14_Witness ==
    /\ adc_bus.writer = {"sensor"} /\ offset_bus.wwait = {"interp"}
    /\ offset_bus.readers = {"ctrl"} /\ adc_bus.message.t = 2

\* process of concurrent.py has returned for f_vals
Processed == f_args.variant = "concurrent" /\ f_out.some

\* C15: whatever the triple and the valid configuration, the published
\* offset is None or lies in [-1.0, 1.0].
C15_OffsetInRange ==
    Processed =>
        \/ f_out.lost
        \/ (-Scale <= f_out.offset /\ f_out.offset <= Scale)

\* a light line at the right edge only: the offset is at the top of the range
C15_Witness ==
    /\ Processed /\ f_self.polarity = "light" /\ f_args.polarity = "LIGHT"
    /\ ~f_out.lost /\ f_out.offset = Scale - 1

\* the strengths and the edge test as the specification words them
Strength(i) ==
    IF f_self.polarity = "dark" THEN Max2(0, f_self.thresh - f_vals[i])
                                ELSE Max2(0, f_vals[i] - f_self.thresh)
StrengthSum == Strength(1) + Strength(2) + Strength(3)
EdgeDetected ==
    Max2(Abs(f_vals[1] - f_vals[2]), Abs(f_vals[2] - f_vals[3]))
        >= f_self.sensitivity

\* C16: the published offset is None exactly when the three strengths sum to
\* zero and no edge is detected; for every other triple it is a number.
C16_LostExactly ==
    Processed => (f_out.lost <=> (StrengthSum = 0 /\ ~EdgeDetected))

\* zero strength but an edge: a number is published
C16_Witness ==
    /\ Processed /\ StrengthSum = 0 /\ EdgeDetected /\ ~f_out.lost
    /\ f_self.polarity = "dark"

\* neither lost nor caught by the centered floor
Weighed ==
    /\ Processed /\ ~(StrengthSum = 0 /\ ~EdgeDetected)
    /\ EdgeDetected \/ Max3(Strength(1), Strength(2), Strength(3))
                          >= f_self.sensitivity

\* f_out.offset is (-Strength(1) + Strength(3)) / (StrengthSum + epsilon)
\* on the grid: same sign, truncated, and strictly inside (-1.0, 1.0)
IsCentroid ==
    LET num == Strength(3) - Strength(1)
        o == f_out.offset
    IN  /\ ~f_out.lost
        /\ o * num >= 0
        /\ num = 0 => o = 0
        /\ num # 0 => /\ Abs(o) * StrengthSum < Abs(num) * Scale
                      /\ Abs(num) * Scale <= (Abs(o) + 1) * StrengthSum
        /\ -Scale < o /\ o < Scale

\* threshold 850, dark polarity, sensitivity 120
DefaultKnobs ==
    f_self.thresh = 850 /\ f_self.polarity = "dark" /\ f_self.sensitivity = 120

PDRaw(c, e, p, first) ==
    (c.Kp * e + (IF first THEN 0 ELSE c.Kd * (e - p) * c.rate))

\* C18: a Tracking cycle with a numeric offset commands the steering angle
\* clamp(Kp*smoothed + Kd*derivative, -max_angle, max_angle) and then forward
\* drive, so every commanded steering angle is within [-max_angle, max_angle].
C18_SteeringClamped ==
    /\ [](Abs(steer) <= controller.max_angle * Scale)
    /\ [][(pc.ctrl = "act" /\ pc'.ctrl = "fwd") =>
            LET raw == PDRaw(controller, prev_offset', controller.prev_error,
                             ~controller.has_prev)
                lim == controller.max_angle * Scale * 100
            IN  /\ raw >= lim => steer' = controller.max_angle * Scale
                /\ raw <= -lim => steer' = -controller.max_angle * Scale
                /\ (raw > -lim /\ raw < lim) =>
                      /\ Abs(steer' * 100 - raw) < 100
                      /\ Abs(steer' * 100) <= Abs(raw)]_vars
    /\ [][(pc.ctrl = "fwd" /\ pc'.ctrl = "loop") =>
            (drive' = "forward" /\ steer' = steer)]_vars

\* the clamp has acted and forward drive followed
C18_Witness ==
    /\ steer = controller.max_angle * Scale /\ drive = "forward"
    /\ pc.ctrl = "loop"
    /\ controller.Kp * controller.prev_error
         > controller.max_angle * Scale * 100

\* C19: the gains are fixed at construction, Kp = max_angle * response and
\* Kd = Kp * loop period * damping (30, 1.0, 0.02, 0.8 give 30.0 and 0.48),
\* and control, reset and recovery never change them.
C19_GainsFixed ==
    /\ PDController(30, 100, 80, 50).Kp = 3000
    /\ PDController(30, 100, 80, 50).Kd = 48
    /\ [](/\ controller.Kp \in {MAX_ANGLE * r : r \in Responses}
          /\ controller.Kd * CONTROL_RATE * 100 = controller.Kp * DAMPING)
    /\ [][controller'.Kp = controller.Kp /\ controller'.Kd = controller.Kd]_vars

\* a controller with non-default gains has steered and been reset by a
\* recovery and has steered again
C19_Witness ==
    /\ controller.Kp = 4500 /\ controller.Kd = 72
    /\ rec_exit # "none" /\ controller.has_prev /\ pc.ctrl = "fwd"

\* C20: a polarity other than dark or light makes the constructor fail,
\* before anything is processed, and never makes process() fail.
C20_PolarityCheckedAtConstruction ==
    /\ (f_pc # "new" /\ lower(f_args.polarity) \notin {"dark", "light"})
           => (f_pc = "config_error" /\ ~f_out.some)
    /\ f_pc # "run_error"
    /\ ~f_out.raised

\* C21: a failed acquisition writes nothing to adc_bus and is not retried,
\* and the sensor thread goes on to its next cycle.
C21_SensorSurvivesFailedRead ==
    [][(pc.sensor = "read" /\ pc'.sensor \notin {"read", "wreq"})
          => (pc'.sensor = "loop" /\ adc_bus' = adc_bus)]_vars

\* the raw samples published so far, and the offsets published so far
RawPublished == adc_bus.message.t
OffsetsPublished == offset_bus.message.t

\* C22: the interpreter processes no sample twice: it processes only a
\* sample newer than the last one processed, so it has never published more
\* offsets than the sensor has published samples.
C22_NoSampleProcessedTwice ==
    /\ [](OffsetsPublished <= RawPublished /\ i_out.t <= RawPublished)
    /\ [][i_out' # i_out =>
            (i_msg.t > last_t /\ last_t' = i_msg.t /\ i_out'.t = i_out.t + 1)]_vars

\* the interpreter has published as many offsets as there are samples and
\* skips a cycle on the sample it has already processed
C22_Witness ==
    /\ OffsetsPublished = 2 /\ RawPublished = 2
    /\ pc.interp = "proc" /\ i_msg.t = last_t

\* C23: running the shutdown sequence again changes nothing: after every
\* run, the first or a later one, the car is stopped, the steering is 0 and
\* the event is set, and a run that starts there stays there.
C23_ShutdownIdempotent ==
    /\ [](pc.main = "exited" => (drive = "stop" /\ steer = 0 /\ stop_event))
    /\ [][(drive = "stop" /\ steer = 0 /\ stop_event)
            => (drive' = "stop" /\ steer' = 0 /\ stop_event')]_vars

\* a second run is under way: px.stop() is about to be called on a stopped car
C23_Witness ==
    pc.main = "stop" /\ drive = "stop" /\ steer = 0 /\ stop_event

\* C24: not lost, no edge and every strength below sensitivity: the offset
\* is exactly 0.0, however the strengths are spread over the channels.
C24_CenteredFloor ==
    (/\ Processed /\ StrengthSum > 0 /\ ~EdgeDetected
     /\ Max3(Strength(1), Strength(2), Strength(3)) < f_self.sensitivity)
        => (~f_out.lost /\ f_out.offset = 0)

\* weak strengths that lean to the right, and the offset is 0.0 all the same
C24_Witness ==
    /\ Processed /\ StrengthSum > 0 /\ ~EdgeDetected
    /\ Max3(Strength(1), Strength(2), Strength(3)) < f_self.sensitivity
    /\ Strength(3) > Strength(2) /\ Strength(2) > Strength(1)
    /\ f_out.offset = 0

\* the controller thread moves from position a to position b
CtrlStep(a, b) == pc.ctrl = a /\ pc'.ctrl = b

\* C25: on the first Tracking cycle after construction or a reset the angle
\* is clamp(Kp * smoothed); on every later cycle the derivative is
\* (smoothed - previous smoothed) / loop period.
C25_DerivativeTerm ==
    /\ [](controller.has_prev => controller.prev_error = prev_offset)
    /\ [][CtrlStep("rec_end", "loop") => ~controller'.has_prev]_vars
    /\ [][CtrlStep("act", "fwd") =>
            LET e == prev_offset'
                lim == controller.max_angle * Scale
                raw == IF controller.has_prev
                         THEN controller.Kp * e
                              + controller.Kd * (e - prev_offset) * controller.rate
                       ELSE controller.Kp * e
            IN  /\ steer' = clamp(Trunc(raw, 100), -lim, lim)
                /\ controller'.has_prev]_vars

\* the first cycle after a recovery: the angle is Kp * smoothed alone
C25_Witness ==
    /\ pc.ctrl = "fwd" /\ rec_exit # "none" /\ prev_offset # 0
    /\ controller.has_prev /\ steer = Trunc(controller.Kp * prev_offset, 100)
    /\ c_msg.offset = Scale /\ prev_offset * 100 < ALPHA * Scale + 100

\* C26: the value fed to the PD law is alpha * d + (1 - alpha) * previous
\* smoothed value, with d the offset after the deadband (0.0 if |offset| <
\* DEADBAND), and the previous value is 0.0 at start and after a recovery.
C26_DeadbandThenSmoothing ==
    /\ [](~controller.has_prev => prev_offset = 0)
    /\ [][CtrlStep("rec_end", "loop") => prev_offset' = 0]_vars
    /\ [][CtrlStep("act", "fwd") =>
            LET o == c_msg.offset
                d == IF Abs(o) * 100 < DEADBAND * Scale THEN 0 ELSE o
                x == ALPHA * d + (100 - ALPHA) * prev_offset
            IN  /\ Abs(prev_offset' * 100 - x) < 100
                /\ Abs(prev_offset' * 100) <= Abs(x)
                /\ prev_offset' * x >= 0
                /\ controller'.prev_error = prev_offset']_vars

\* an offset inside the deadband has been smoothed as 0.0
C26_Witness ==
    /\ pc.ctrl = "fwd" /\ c_msg.some /\ c_msg.offset = -3
    /\ prev_offset > 0 /\ controller.prev_error = prev_offset

\* the controller thread is inside the recovery
Recovering ==
    pc.ctrl \in {"rec_stop", "rec_steer", "rec_back", "rec_loop", "rec_end"}

\* C27: the controller state is reset when a recovery begins as well as when
\* it completes: while the controller is recovering, previous_error is 0,
\* has_previous is false and the smoothed offset is 0.
C27_ResetWhileRecovering ==
    Recovering =>
        (controller.prev_error = 0 /\ ~controller.has_prev /\ prev_offset = 0)

\* C30: a recovery commands stop, then the recovery steering angle, then
\* backward drive, then only polls, then stop; from the backward command to
\* the closing stop neither steering nor drive changes.
C30_RecoveryCommandOrder ==
    /\ [][CtrlStep("rec_stop", "rec_steer")
            => (drive' = "stop" /\ steer' = steer)]_vars
    /\ [][CtrlStep("rec_steer", "rec_back")
            => (steer' = RECOVER_STEER * Scale /\ drive' = drive)]_vars
    /\ [][CtrlStep("rec_back", "rec_loop")
            => (drive' = "backward" /\ steer' = steer)]_vars
    /\ [][(pc.ctrl = "rec_loop" /\ pc'.ctrl \in {"rec_loop", "rec_end"})
            => (drive' = drive /\ steer' = steer)]_vars
    /\ [][CtrlStep("rec_end", "loop")
            => (drive' = "stop" /\ steer' = steer)]_vars
    /\ [][/\ pc.ctrl = "rec_stop" => pc'.ctrl \in {"rec_stop", "rec_steer"}
          /\ pc.ctrl = "rec_steer" => pc'.ctrl \in {"rec_steer", "rec_back"}
          /\ pc.ctrl = "rec_back" => pc'.ctrl \in {"rec_back", "rec_loop"}
          /\ pc.ctrl = "rec_loop" => pc'.ctrl \in {"rec_loop", "rec_end"}
          /\ pc.ctrl = "rec_end" => pc'.ctrl \in {"rec_end", "loop"}]_vars
    /\ [](pc.ctrl \in {"rec_back", "rec_loop", "rec_end"}
            => steer = RECOVER_STEER * Scale)
    /\ [](pc.ctrl \in {"rec_loop", "rec_end"} => drive = "backward")

\* a recovery that polled until its timeout has ended: the car is stopped
\* again and the steering is still at the recovery angle
C30_Witness ==
    /\ pc.ctrl = "loop" /\ rec_exit = "timeout" /\ elapsed > RECOVER_MAX_TIME
    /\ drive = "stop" /\ steer = RECOVER_STEER * Scale /\ ~controller.has_prev

\* channel i of the reading lies between lo and hi, in hundredths of a count
Between(x, a, b) == (a <= x /\ x <= b) \/ (b <= x /\ x <= a)

\* C28: the first processed sample becomes the baseline; after every later
\* update each channel's baseline lies between its previous value and the
\* new reading, whatever smoothing factor the constructor accepted.
C28_BaselineConvex ==
    [][(interp.auto_baseline /\ i_out' # i_out) =>
          \A i \in 1..3 :
             IF interp.baseline = <<>>
               THEN interp'.baseline[i] = i_msg.vals[i] * 100
             ELSE Between(interp'.baseline[i], interp.baseline[i],
                          i_msg.vals[i] * 100)]_vars

\* C29: a cycle without a new sample writes nothing to offset_bus and leaves
\* last_t and the baseline as they are, and the thread goes on; with
\* auto_baseline off no cycle changes the baseline.
C29_SkipChangesNothing ==
    /\ [][(pc.interp = "proc" /\ pc'.interp # "proc"
              /\ (~i_msg.some \/ i_msg.t = last_t))
            => /\ pc'.interp = "loop"
               /\ offset_bus' = offset_bus /\ i_out' = i_out
               /\ last_t' = last_t /\ interp' = interp]_vars
    /\ [][~interp.auto_baseline => interp'.baseline = interp.baseline]_vars
    /\ [][interp'.baseline # interp.baseline => i_out'.t = i_out.t + 1]_vars

\* the interpreter has processed one sample and skips a cycle on it, the
\* baseline and the published offset still those of that sample
C29_Witness ==
    /\ pc.interp = "loop" /\ i_msg.some /\ i_msg.t = last_t
    /\ interp.auto_baseline /\ interp.baseline # <<>>
    /\ offset_bus.message.t = 1 /\ adc_bus.message.t = 1

\* C31: every published raw sample carries the triple of one single
\* acquisition: its three channel values belong to the same reading of the
\* grayscale module.
C31_TripleIsOneAcquisition ==
    adc_bus.message.some => adc_bus.message.vals \in track

\* the locks of a bus a thread holds, and the steps of the three tasks
Holds(b, th) == th \in b.readers \cup b.writer
TaskStep ==
    \/ SensorCheck \/ SensorSample \/ SensorWrite
    \/ InterpCheck \/ InterpRead \/ InterpSkip \/ InterpProcess \/ InterpWrite
    \/ CtrlCheck \/ CtrlRead \/ CtrlIdle \/ CtrlLost \/ CtrlSteer \/ CtrlForward
    \/ RecoverStart \/ RecoverPoll \/ RecoverEnd

\* C32: the pipeline never deadlocks: no task is inside or waiting for both
\* mailbox locks at once, a task that holds a lock can always take its next
\* step, and while the event is clear and a task is alive some task can step.
C32_NoDeadlock ==
    /\ \A th \in Threads :
          ~(th \in LockUsers(adc_bus) /\ th \in LockUsers(offset_bus))
    /\ (Running("sensor") /\ Holds(adc_bus, "sensor")) => ENABLED SensorWrite
    /\ (Running("interp") /\ Holds(adc_bus, "interp")) => ENABLED InterpRead
    /\ (Running("interp") /\ Holds(offset_bus, "interp")) => ENABLED InterpWrite
    /\ (Running("ctrl") /\ Holds(offset_bus, "ctrl")) => ENABLED CtrlRead
    /\ (~stop_event /\ (Running("interp") \/ Running("ctrl")))
          => ENABLED TaskStep

\* the interpreter waits for the write lock of the offsets while the
\* controller is inside its read, and the sensor waits for the write lock of
\* the raw samples
C32_Witness ==
    /\ ~stop_event /\ pc.interp = "wacq" /\ pc.ctrl = "rrel"
    /\ pc.sensor = "wacq" /\ ~ENABLED InterpWrite

\* an interpreter of the pipeline's sensitivity, polarity and threshold that
\* has no baseline and keeps none
Fresh == GrayscaleInterpreter(SENSITIVITY, POLARITY, FALSE, 0, THRESH)

C34_SmoothedInRange ==
    /\ [](ALPHA \in 0..100 /\ prev_offset \in -Scale..Scale)
    /\ [][prev_offset' # prev_offset =>
            \/ CtrlStep("rec_end", "loop") /\ prev_offset' = 0
            \/ /\ CtrlStep("act", "fwd")
               /\ deadband(c_msg.offset) \in -Scale..Scale
               /\ Between(prev_offset', prev_offset,
                          deadband(c_msg.offset))]_vars

\* the same full-scale offset has been smoothed in again and again and the
\* smoothed value has come within a tenth of 1.0
C34_Witness ==
    /\ pc.ctrl = "fwd" /\ c_msg.some /\ c_msg.offset = Scale
    /\ prev_offset * 10 >= 9 * Scale /\ prev_offset <= Scale

\* C35: the controller commands backward drive only inside a recovery, and
\* forward drive only at the end of a tracking cycle whose message carries a
\* numeric offset; a cycle that read None goes through the recovery and never
\* commands forward.
C35_DriveCommands ==
    /\ [](pc.ctrl = "fwd" => c_msg.some /\ ~c_msg.lost)
    /\ [](Recovering => c_msg.some /\ c_msg.lost /\ drive # "forward")
    /\ [][(drive' = "backward" /\ drive # "backward")
             => CtrlStep("rec_back", "rec_loop")]_vars
    /\ [][(drive' = "forward" /\ drive # "forward")
             => CtrlStep("fwd", "loop") /\ c_msg.some /\ ~c_msg.lost]_vars
    /\ [][(pc.ctrl = "act" /\ c_msg.some /\ c_msg.lost /\ pc'.ctrl # "act")
             => pc'.ctrl = "rec_stop" /\ drive' = "stop"]_vars

\* after at least one tracking cycle a None offset has been read and the
\* recovery is reversing
C35_Witness ==
    /\ pc.ctrl = "rec_loop" /\ drive = "backward" /\ c_msg.lost
    /\ controller.has_prev

\* C36: as long as offset_bus has never been written the controller only
\* commands stop() and steering 0: the car stands still and centred, and each
\* controller cycle takes the msg-is-None branch.
C36_IdleUntilFirstOffset ==
    /\ [](offset_bus.message.t = 0 =>
             /\ drive = "stop" /\ steer = 0
             /\ pc.ctrl \in {"unstarted", "loop", "racq", "rrel", "act",
                              "idle_steer"})
    /\ [][(offset_bus.message.t = 0 /\ offset_bus'.message.t = 0
              /\ pc.ctrl = "act" /\ pc'.ctrl # "act")
             => pc'.ctrl = "idle_steer" /\ ~c_msg.some /\ drive' = "stop"]_vars
    /\ [][CtrlStep("idle_steer", "loop") => steer' = 0 /\ drive' = drive]_vars

\* nothing has been published yet: the controller has read None, has
\* commanded stop() and is about to centre the steering
C36_Witness ==
    /\ offset_bus.message.t = 0 /\ ~c_msg.some
    /\ pc.ctrl = "idle_steer" /\ drive = "stop" /\ steer = 0

\* C37: the recovery's reacquisition test agrees with the interpreter's lost
\* test: for an interpreter with the module's polarity and threshold, and any
\* sensitivity, a triple that line_seen_thresh accepts is never processed
\* to None.
C37_SeenIsNotLost ==
    (/\ f_pc = "processed" /\ f_args.variant = "concurrent"
     /\ f_self.polarity = lower(POLARITY) /\ f_self.thresh = THRESH
     /\ line_seen_thresh(f_vals))
        => ~f_out.lost

\* one probe is a single count below the threshold and there is no edge:
\* the poll sees the line and the interpreter reports it centred
C37_Witness ==
    /\ f_pc = "processed" /\ f_args.variant = "concurrent"
    /\ f_self.polarity = lower(POLARITY) /\ f_self.thresh = THRESH
    /\ f_vals = <<850, 849, 850>> /\ line_seen_thresh(f_vals)
    /\ ~f_out.lost /\ f_out.offset = 0

\* C38: the controller has no freshness check: every cycle that finds a
\* numeric offset in the mailbox smooths it in, steers by the PD law and
\* commands forward drive, whatever the message's timestamp; so once the
\* publishing has stopped on a numeric offset, forward drive is commanded
\* again and again for as long as the event stays clear.
C38_NoFreshnessCheck ==
    /\ [][(pc.ctrl = "act" /\ c_msg.some /\ ~c_msg.lost /\ pc'.ctrl # "act")
            => /\ pc'.ctrl = "fwd"
               /\ prev_offset' = smooth(deadband(c_msg.offset), prev_offset)
               /\ steer' = control(controller, prev_offset').angle]_vars
    /\ [][CtrlStep("fwd", "loop") => drive' = "forward"]_vars
    /\ (<>[](offset_bus.message.some /\ ~offset_bus.message.lost
                /\ ~stop_event))
          => []<>(pc.ctrl = "fwd" /\ ENABLED CtrlForward)

\* one numeric offset was published, nothing after it, and the controller has
\* smoothed the same message in at least three times and drives forward
C38_Witness ==
    /\ offset_bus.message.t = 1 /\ c_msg.t = 1 /\ c_msg.offset = Scale
    /\ prev_offset * 2 > Scale /\ pc.ctrl = "fwd" /\ drive = "forward"

\* C39: once the event is set, a recovery that is in its poll loop leaves the
\* loop at its next check, without another poll or sleep; stop() follows and
\* the controller thread ends, commanding no steering and no drive other
\* than that stop.
C39_CancelEndsRecovery ==
    /\ [][(stop_event /\ pc.ctrl = "rec_loop")
             => /\ rec_vals' = rec_vals /\ elapsed' = elapsed
                /\ pc'.ctrl \in {"rec_loop", "rec_end", "dead"}
                /\ pc'.ctrl = "rec_end" => rec_exit' = "cancel"]_vars
    /\ [][(stop_event /\ pc'.ctrl # pc.ctrl
               /\ pc.ctrl \in {"rec_loop", "rec_end", "loop"})
             => /\ steer' = steer
                /\ drive' = IF pc.ctrl = "rec_end" /\ pc'.ctrl = "loop"
                               THEN "stop" ELSE drive
                /\ pc'.ctrl \in {"rec_end", "loop", "done", "dead"}
                /\ pc.ctrl = "loop" => pc'.ctrl = "done"]_vars
    /\ []((stop_event /\ Running("ctrl") /\ pc.ctrl = "rec_loop")
             => ENABLED RecoverPoll)

\* the recovery was cancelled in its poll loop, the controller has stopped
\* the car and has ended before the launcher is through its finally block
C39_Witness ==
    /\ stop_event /\ rec_exit = "cancel" /\ pc.ctrl = "done"
    /\ drive = "stop" /\ pc.main \in {"stop", "steer", "sleep"}

====
